---- MODULE Spec2Model ----
(***************************************************************************)
(* Model of the request/batch core of byte_infer_perf/llm_perf:            *)
(*   - CoreEngine.Packet (core/engine.py): per-request state holder with   *)
(*     its result channel, driven by a producer (the scheduling loop) and  *)
(*     one consumer (the request's issuer);                                *)
(*   - NpuEngine.Packet.prepare_inputs (backends/NPU/npu_engine.py): the   *)
(*     batch builder.                                                      *)
(* ResultQueue (llm_perf.core.generation) is not part of the sources at    *)
(* hand; it is modelled from the specification as an unbounded FIFO with a *)
(* non-blocking put, a suspending get and a non-blocking empty test.       *)
(***************************************************************************)
EXTENDS Integers, Sequences, FiniteSets, TLC

\* ------------------------------------------------------------------ bounds

\* Most tokens one Packet is given by add_result.
MaxGen == 3
\* Most finish() calls made on one Packet.
MaxFinish == 2

\* The do_inference steps a rank runs.
MaxSteps == 2

\* The Packet whose life cycle is followed call by call.
PacketIds == {1}
\* The Packets a batch is drawn from.
BatchPacketIds == {1, 2}
\* Token ids the sampler may hand to add_result.
TokenIds == {41, 42}
\* Prompts (request.input_ids) a request may carry.
Prompts == {<<5>>, <<5, 7, 9>>}
\* pad_token_id values the engine may be constructed with.
PadTokenIds == {0, 3}
\* model_config["model_name"] values the engine may be constructed with.
ModelNames == {"llama2", "chatglm2"}

\* ------------------------------------------------------------------ values

\* Python's None: the terminal marker on a result channel, and an unset field.
None == [kind |-> "None"]

\* GenerateResult: the value add_result receives; only token_id is read.
GenerateResult(t) == [kind |-> "GenerateResult", token_id |-> t]

\* PacketStatus, by member name.
ERROR == "ERROR"
PENDING == "PENDING"
RUNNING == "RUNNING"
FINISH == "FINISH"
PacketStatus == {ERROR, PENDING, RUNNING, FINISH}

\* ------------------------------------------------------------------ state

VARIABLES
    request,        \* [PacketIds -> prompt]: packet.request.input_ids
    state,          \* [PacketIds -> PacketStatus]: packet.state
    generate_ids,   \* [PacketIds -> Seq(token)]: packet.generate_ids
    result_queue,   \* [PacketIds -> Seq(item)]: packet.result_queue, head first
    exception,      \* [PacketIds -> value]: packet.exception
    pad_token_id,   \* engine.pad_token_id
    model_name,     \* engine.model_config["model_name"]
    pc,             \* [PacketIds -> {"idle", "get_result"}]: the consumer's position
    received,       \* [PacketIds -> Seq(item)]: what get_result has returned so far
    produced,       \* [PacketIds -> Seq(item)]: what the producer's calls handed over
    last,           \* the most recent call: operation, packet, argument, return value
    environ,        \* [rank -> os.environ of that rank's process]
    world_size,     \* [rank -> engine.world_size]
    local_rank,     \* [rank -> engine.local_rank]
    loaded,         \* [rank -> the local_rank / world_size load_model read]
    channel,        \* [rank -> Seq(payload)]: broadcasts not yet received by the rank
    epc,            \* [rank -> position inside do_inference]
    inputs,         \* [rank -> do_inference's local model_inputs]
    outputs,        \* [rank -> do_inference's local outputs]
    elog            \* [rank -> what the rank's do_inference calls have done so far]

packetVars == <<request, state, generate_ids, result_queue, exception, pad_token_id,
                model_name, pc, received, produced, last>>

engineVars == <<environ, world_size, local_rank, loaded, channel, epc,
                inputs, outputs, elog>>

vars == <<request, state, generate_ids, result_queue, exception, pad_token_id,
          model_name, pc, received, produced, last, environ, world_size,
          local_rank, loaded, channel, epc, inputs, outputs, elog>>

Call(op, p, arg, ret) == [op |-> op, pkt |-> p, arg |-> arg, ret |-> ret]

\* The Packets that exist.
Packets == DOMAIN request

\* ------------------------------------------------------------ ResultQueue

\* ResultQueue.put: enqueue at the tail, never blocks.
QueuePut(q, item) == Append(q, item)

\* ResultQueue.empty
QueueEmpty(q) == q = <<>>

\* ResultQueue.get resumes only when an item is there, and takes the head.
QueueGetItem(q) == Head(q)
QueueGetRest(q) == Tail(q)

\* ------------------------------------------------- NpuEngine construction

\* os.environ.get(name, default) / os.getenv(name, default): environ maps the
\* names of the variables that are set to their strings; an unset variable
\* reads as the default.
Getenv(env, name, default) == IF name \in DOMAIN env THEN env[name] ELSE default

\* int() of the decimal strings the launcher may put in the environment.
int(s) == CASE s = "0" -> 0 [] s = "1" -> 1 [] s = "2" -> 2 [] s = "3" -> 3

\* NpuEngine.setup: the rank identity the engine keeps.
setup_world_size(env) == int(Getenv(env, "WORLD_SIZE", "1"))
setup_local_rank(env) == int(Getenv(env, "LOCAL_RANK", "0"))

\* CoreEngine.load_model: the rank identity model loading reads for itself.
load_model_world_size(env) == int(Getenv(env, "WORLD_SIZE", "0"))
load_model_local_rank(env) == int(Getenv(env, "LOCAL_RANK", "0"))

\* The trace of a rank that has not yet run do_inference.
EmptyLog ==
    [started |-> 0, prepared |-> <<>>, sent |-> <<>>, got |-> <<>>, msgr |-> 0,
     executed |-> <<>>, returned |-> <<>>]

\* NpuEngine.__init__ in every process of a rank group, given each process's
\* environment: setup() (which loads the model), then the messenger if needed.
NpuEngineInit(envs) ==
    /\ environ = envs
    /\ world_size = [r \in DOMAIN envs |-> setup_world_size(envs[r])]
    /\ local_rank = [r \in DOMAIN envs |-> setup_local_rank(envs[r])]
    /\ loaded = [r \in DOMAIN envs |->
                    [world_size |-> load_model_world_size(envs[r]),
                     local_rank |-> load_model_local_rank(envs[r])]]
    /\ channel = [r \in DOMAIN envs |-> <<>>]
    /\ epc = [r \in DOMAIN envs |-> "idle"]
    /\ inputs = [r \in DOMAIN envs |-> None]
    /\ outputs = [r \in DOMAIN envs |-> None]
    /\ elog = [r \in DOMAIN envs |-> EmptyLog]

\* One process started with neither WORLD_SIZE nor LOCAL_RANK set.
SingleProcessEnviron == [r \in {0} |-> [name \in {} |-> ""]]

\* ------------------------------------------------------- CoreEngine.Packet

\* Packet.__init__ for every request submitted.
Init ==
    /\ request \in [PacketIds -> Prompts]
    /\ state = [p \in PacketIds |-> PENDING]
    /\ generate_ids = [p \in PacketIds |-> <<>>]
    /\ result_queue = [p \in PacketIds |-> <<>>]
    /\ exception = [p \in PacketIds |-> None]
    /\ pad_token_id \in PadTokenIds
    /\ model_name \in ModelNames
    /\ pc = [p \in PacketIds |-> "idle"]
    /\ received = [p \in PacketIds |-> <<>>]
    /\ produced = [p \in PacketIds |-> <<>>]
    /\ last = Call("__init__", 0, None, None)
    /\ NpuEngineInit(SingleProcessEnviron)

\* The scheduler selects a PENDING Packet into a batch.
select(p) ==
    /\ state[p] = PENDING
    /\ state' = [state EXCEPT ![p] = RUNNING]
    /\ last' = Call("select", p, None, None)
    /\ UNCHANGED <<request, generate_ids, result_queue, exception, pad_token_id,
                   model_name, pc, received, produced>>
    /\ UNCHANGED engineVars

\* add_result with the token inserted at the front of generate_ids.
add_result_prepend(p, res) ==
    /\ generate_ids' = [generate_ids EXCEPT ![p] = <<res.token_id>> \o @]
    /\ result_queue' = [result_queue EXCEPT ![p] = QueuePut(@, res)]
    /\ produced' = [produced EXCEPT ![p] = Append(@, res)]
    /\ last' = Call("add_result", p, res, None)
    /\ UNCHANGED <<request, state, exception, pad_token_id, model_name, pc, received>>
    /\ UNCHANGED engineVars

\* add_result without the put on the result channel.
add_result_noput(p, res) ==
    /\ generate_ids' = [generate_ids EXCEPT ![p] = Append(@, res.token_id)]
    /\ produced' = [produced EXCEPT ![p] = Append(@, res)]
    /\ last' = Call("add_result", p, res, None)
    /\ UNCHANGED <<request, state, result_queue, exception, pad_token_id, model_name,
                   pc, received>>
    /\ UNCHANGED engineVars

\* add_result without the append to generate_ids.
add_result_noappend(p, res) ==
    /\ result_queue' = [result_queue EXCEPT ![p] = QueuePut(@, res)]
    /\ produced' = [produced EXCEPT ![p] = Append(@, res)]
    /\ last' = Call("add_result", p, res, None)
    /\ UNCHANGED <<request, state, generate_ids, exception, pad_token_id, model_name,
                   pc, received>>
    /\ UNCHANGED engineVars

\* Packet.add_result
add_result(p, res) ==
    /\ generate_ids' = [generate_ids EXCEPT ![p] = Append(@, res.token_id)]
    /\ result_queue' = [result_queue EXCEPT ![p] = QueuePut(@, res)]
    /\ produced' = [produced EXCEPT ![p] = Append(@, res)]
    /\ last' = Call("add_result", p, res, None)
    /\ UNCHANGED <<request, state, exception, pad_token_id, model_name, pc, received>>
    /\ UNCHANGED engineVars

\* Packet.finish
finish(p) ==
    /\ state' = [state EXCEPT ![p] = FINISH]
    /\ result_queue' = [result_queue EXCEPT ![p] = QueuePut(@, None)]
    /\ produced' = [produced EXCEPT ![p] = Append(@, None)]
    /\ last' = Call("finish", p, None, None)
    /\ UNCHANGED <<request, generate_ids, exception, pad_token_id, model_name, pc,
                   received>>
    /\ UNCHANGED engineVars

\* Packet.error: the statement is the comparison self.state == PacketStatus.ERROR,
\* whose value is discarded; no field is assigned.
error(p) ==
    /\ last' = Call("error", p, None, None)
    /\ UNCHANGED <<request, state, generate_ids, result_queue, exception,
                   pad_token_id, model_name, pc, received, produced>>
    /\ UNCHANGED engineVars

\* Packet.get_result, the call: the consumer starts awaiting result_queue.get().
get_result(p) ==
    /\ pc[p] = "idle"
    /\ pc' = [pc EXCEPT ![p] = "get_result"]
    /\ last' = Call("get_result", p, None, None)
    /\ UNCHANGED <<request, state, generate_ids, result_queue, exception,
                   pad_token_id, model_name, received, produced>>
    /\ UNCHANGED engineVars

\* Packet.get_result, the return: resumes once the queue holds an item.
get_result_return(p) ==
    /\ pc[p] = "get_result"
    /\ ~QueueEmpty(result_queue[p])
    /\ result_queue' = [result_queue EXCEPT ![p] = QueueGetRest(@)]
    /\ received' = [received EXCEPT ![p] = Append(@, QueueGetItem(result_queue[p]))]
    /\ pc' = [pc EXCEPT ![p] = "idle"]
    /\ last' = Call("get_result_return", p, None, QueueGetItem(result_queue[p]))
    /\ UNCHANGED <<request, state, generate_ids, exception, pad_token_id, model_name,
                   produced>>
    /\ UNCHANGED engineVars

\* Packet.is_finished
is_finished(p) ==
    /\ last' = Call("is_finished", p, None, state[p] = FINISH)
    /\ UNCHANGED <<request, state, generate_ids, result_queue, exception,
                   pad_token_id, model_name, pc, received, produced>>
    /\ UNCHANGED engineVars

\* Packet.return_q_empty
return_q_empty(p) ==
    /\ last' = Call("return_q_empty", p, None, QueueEmpty(result_queue[p]))
    /\ UNCHANGED <<request, state, generate_ids, result_queue, exception,
                   pad_token_id, model_name, pc, received, produced>>
    /\ UNCHANGED engineVars

\* ------------------------------------------ NpuEngine.Packet.prepare_inputs

\* Python's [x] * n: the empty list when n <= 0.
Repeat(x, n) == [i \in 1..n |-> x]

\* cur_id_len of one packet.
cur_id_len(p) == Len(request[p]) + Len(generate_ids[p])

\* The first loop: max_seq_len starts at -1 and is raised packet by packet.
RECURSIVE max_seq_len_loop(_, _)
max_seq_len_loop(batch, acc) ==
    IF batch = <<>> THEN acc
    ELSE max_seq_len_loop(Tail(batch),
                          IF cur_id_len(Head(batch)) > acc
                          THEN cur_id_len(Head(batch)) ELSE acc)

max_seq_len(batch) == max_seq_len_loop(batch, -1)

\* The branch a packet takes in the second loop.
generate_type_of(p) == IF Len(generate_ids[p]) = 0 THEN "prefill" ELSE "decode"

\* input_ids with the decode row left as the single newest token, unpadded.
input_ids_row_unpadded(p, msl) ==
    IF Len(generate_ids[p]) = 0
    THEN request[p] \o generate_ids[p] \o Repeat(pad_token_id, msl - cur_id_len(p))
    ELSE <<generate_ids[p][Len(generate_ids[p])]>>

\* input_ids with the decode row resending the whole history, padded.
input_ids_row_history(p, msl) ==
    request[p] \o generate_ids[p] \o Repeat(pad_token_id, msl - cur_id_len(p))

\* input_ids built for one packet in the second loop.
input_ids_row(p, msl) ==
    IF Len(generate_ids[p]) = 0
    THEN request[p] \o generate_ids[p] \o Repeat(pad_token_id, msl - cur_id_len(p))
    ELSE <<generate_ids[p][Len(generate_ids[p])]>> \o Repeat(pad_token_id, msl - 1)

\* position_ids with the decode row starting at the packet's own last index.
position_ids_row_own(p, msl) ==
    IF Len(generate_ids[p]) = 0
    THEN [i \in 1..msl |-> i - 1]
    ELSE <<cur_id_len(p) - 1>> \o Repeat(0, msl - 1)

\* The row appended to all_position_ids for one packet in the second loop.
position_ids_row(p, msl) ==
    IF Len(generate_ids[p]) = 0
    THEN [i \in 1..msl |-> i - 1]
    ELSE <<msl - 1>> \o Repeat(0, msl - 1)

\* all_input_ids / all_position_ids after the second loop.
all_input_ids(batch) ==
    [k \in 1..Len(batch) |-> input_ids_row(batch[k], max_seq_len(batch))]

all_position_ids(batch) ==
    [k \in 1..Len(batch) |-> position_ids_row(batch[k], max_seq_len(batch))]

\* generate_type taken from the first packet of the batch.
generate_type_first(batch) == generate_type_of(batch[1])

\* generate_type is assigned inside the loop body only: after the loop it holds
\* the last packet's branch.
generate_type(batch) == generate_type_of(batch[Len(batch)])

\* The value prepare_inputs returns. With no packet the loop body never runs and
\* reading generate_type raises UnboundLocalError.
prepare_inputs(batch) ==
    IF batch = <<>> THEN [raised |-> "UnboundLocalError"]
    ELSE LET model_inputs ==
                 [past_key_values |-> None,
                  attention_mask |-> None,
                  use_cache |-> None,
                  input_ids |-> all_input_ids(batch),
                  position_ids |-> all_position_ids(batch),
                  generate_type |-> generate_type(batch)]
         IN  IF model_name = "chatglm2"
             THEN model_inputs @@ [return_last_logit |-> FALSE]
             ELSE model_inputs

\* The lists of distinct Packets a caller may pass, the empty list included.
Batches ==
    {b \in UNION {[1..n -> Packets] : n \in 0..Cardinality(Packets)} :
        \A i, j \in DOMAIN b : i # j => b[i] # b[j]}

\* prepare_inputs taking the newest token of a decode packet with pop(), which
\* removes it from generate_ids.
PrepareInputs_pop(batch) ==
    /\ last' = Call("prepare_inputs", 0, batch, prepare_inputs(batch))
    /\ generate_ids' =
          [p \in Packets |->
              IF (\E k \in 1..Len(batch) : batch[k] = p) /\ generate_ids[p] # <<>>
              THEN SubSeq(generate_ids[p], 1, Len(generate_ids[p]) - 1)
              ELSE generate_ids[p]]
    /\ UNCHANGED <<request, state, result_queue, exception,
                   pad_token_id, model_name, pc, received, produced>>
    /\ UNCHANGED engineVars

\* NpuEngine.prepare_inputs on a batch.
PrepareInputs(batch) ==
    /\ last' = Call("prepare_inputs", 0, batch, prepare_inputs(batch))
    /\ UNCHANGED <<request, state, generate_ids, result_queue, exception,
                   pad_token_id, model_name, pc, received, produced>>
    /\ UNCHANGED engineVars

\* ---------------------------------------------------------- specification

\* Number of terminal markers in a sequence of channel items.
RECURSIVE Markers(_)
Markers(s) ==
    IF s = <<>> THEN 0
    ELSE (IF Head(s) = None THEN 1 ELSE 0) + Markers(Tail(s))

Next ==
    \/ \E p \in Packets : select(p)
    \/ \E p \in Packets, t \in TokenIds :
          Len(generate_ids[p]) < MaxGen /\ add_result(p, GenerateResult(t))
    \/ \E p \in Packets : Markers(produced[p]) < MaxFinish /\ finish(p)
    \/ \E p \in Packets : error(p)
    \/ \E p \in Packets : get_result(p)
    \/ \E p \in Packets : get_result_return(p)
    \/ \E p \in Packets : is_finished(p)
    \/ \E p \in Packets : return_q_empty(p)
    \/ \E batch \in Batches : PrepareInputs(batch)

Spec == Init /\ [][Next]_vars

\* The consumer is a task that keeps awaiting get_result and is resumed whenever
\* its queue holds an item; nothing is assumed of the producer.
FairSpec ==
    /\ Spec
    /\ \A p \in PacketIds : WF_vars(get_result(p)) /\ WF_vars(get_result_return(p))

\* Sequences over S of length at most n.
SeqUpTo(S, n) == UNION {[1..k -> S] : k \in 0..n}

\* Batch building on its own: Packets that have been given any number of tokens
\* (none consumed yet), in an engine of any configuration.
BatchInit ==
    /\ request \in [BatchPacketIds -> Prompts]
    /\ generate_ids \in [BatchPacketIds -> SeqUpTo(TokenIds, MaxGen)]
    /\ state = [p \in BatchPacketIds |->
                   IF generate_ids[p] = <<>> THEN PENDING ELSE RUNNING]
    /\ result_queue = [p \in BatchPacketIds |->
                   [i \in 1..Len(generate_ids[p]) |-> GenerateResult(generate_ids[p][i])]]
    /\ exception = [p \in BatchPacketIds |-> None]
    /\ pad_token_id \in PadTokenIds
    /\ model_name \in ModelNames
    /\ pc = [p \in BatchPacketIds |-> "idle"]
    /\ received = [p \in BatchPacketIds |-> <<>>]
    /\ produced = result_queue
    /\ last = Call("__init__", 0, None, None)
    /\ NpuEngineInit(SingleProcessEnviron)

BatchNext == \E batch \in Batches : PrepareInputs(batch)

BatchSpec == BatchInit /\ [][BatchNext]_vars

\* ------------------------------------------------------------- NpuEngine

\* The processes of the rank group, named by their index in the group.
Ranks == DOMAIN environ

\* A Python tuple, kept apart from the values it holds.
PyTuple(items) == [kind |-> "tuple", items |-> items]

\* broadcast_inputs' first test with the comparison made strict.
single_rank_strict(r) == world_size[r] < 1

\* broadcast_inputs' first test widened to groups of two.
single_rank_off(r) == world_size[r] <= 2

\* broadcast_inputs' first test: no messenger is used by a group of one.
single_rank(r) == world_size[r] <= 1

\* The leader test with every rank taken for the leader.
is_leader_always(r) == TRUE

\* The test do_inference and broadcast_inputs make for the leader.
is_leader(r) == local_rank[r] = 0

\* The messenger: broadcast(obj) hands obj to every follower in order and does
\* not wait; receive() waits for the oldest obj not yet taken and returns it.
broadcast(chan, r, obj) ==
    [f \in DOMAIN chan |-> IF f = r THEN chan[f] ELSE Append(chan[f], obj)]

receive_ready(chan, r) == chan[r] # <<>>

receive_value(chan, r) == Head(chan[r])

receive_rest(chan, r) == [chan EXCEPT ![r] = Tail(@)]

\* torch.tensor(list) and Tensor.cuda().
Tensor(data) == [kind |-> "Tensor", data |-> data, device |-> "cpu"]

cuda(t) == [t EXCEPT !.device = "cuda"]

\* model_inputs as handed to the model: input_ids and position_ids become
\* tensors and move to the device; no other entry is a tensor.
executor_inputs(d) ==
    [d EXCEPT !.input_ids = cuda(Tensor(@)), !.position_ids = cuda(Tensor(@))]

\* The executor's reply: logits of shape [batch, sequence, vocabulary]; the
\* vocabulary vector of row b at position i is named <<b, i>>.
executor(d) ==
    [logits |-> [b \in 1..Len(d.input_ids.data) |->
                    [i \in 1..Len(d.input_ids.data[b]) |-> <<b, i>>]]]

\* outputs.logits[..., :-1, :] and outputs.logits[:, -1, :].
input_logits(o) ==
    [b \in DOMAIN o.logits |-> SubSeq(o.logits[b], 1, Len(o.logits[b]) - 1)]

next_tokens_logits(o) ==
    [b \in DOMAIN o.logits |-> o.logits[b][Len(o.logits[b])]]

\* do_inference up to the call of broadcast_inputs: the leader builds the
\* inputs, every other rank starts from None. An exception of prepare_inputs
\* leaves do_inference.
DoInferenceBegin(r, packets) ==
    /\ epc[r] = "idle"
    /\ LET prepared == IF is_leader(r) THEN prepare_inputs(packets) ELSE None
       IN  IF "raised" \in DOMAIN prepared
           THEN /\ epc' = [epc EXCEPT ![r] = "raised"]
                /\ elog' = [elog EXCEPT ![r].started = @ + 1]
                /\ UNCHANGED inputs
           ELSE /\ epc' = [epc EXCEPT ![r] = "broadcast_inputs"]
                /\ inputs' = [inputs EXCEPT ![r] = prepared]
                /\ elog' = [elog EXCEPT
                       ![r].started = @ + 1,
                       ![r].prepared = IF is_leader(r) THEN Append(@, prepared) ELSE @]
    /\ UNCHANGED <<environ, world_size, local_rank, loaded, channel, outputs>>
    /\ UNCHANGED packetVars

\* broadcast_inputs(model_inputs)[0]: args is the tuple (model_inputs,).
broadcast_inputs(r) ==
    /\ epc[r] = "broadcast_inputs"
    /\ LET args == PyTuple(<<inputs[r]>>)
           sends == ~single_rank(r) /\ is_leader(r)
           takes == ~single_rank(r) /\ ~is_leader(r)
           ret == IF takes THEN receive_value(channel, r) ELSE args
       IN  /\ takes => receive_ready(channel, r)
           /\ channel' = IF sends THEN broadcast(channel, r, args)
                         ELSE IF takes THEN receive_rest(channel, r)
                         ELSE channel
           /\ inputs' = [inputs EXCEPT ![r] = ret.items[1]]
           /\ elog' = [elog EXCEPT
                  ![r].sent = IF sends THEN Append(@, args) ELSE @,
                  ![r].msgr = IF sends \/ takes THEN @ + 1 ELSE @,
                  ![r].got = Append(@, ret)]
    /\ epc' = [epc EXCEPT ![r] = "forward"]
    /\ UNCHANGED <<environ, world_size, local_rank, loaded, outputs>>
    /\ UNCHANGED packetVars

\* The conversion of the inputs and the model's forward pass. Subscripting a
\* None model_inputs raises TypeError.
DoInferenceForward(r) ==
    /\ epc[r] = "forward"
    /\ IF inputs[r] = None
       THEN /\ epc' = [epc EXCEPT ![r] = "raised"]
            /\ UNCHANGED <<inputs, outputs, elog>>
       ELSE /\ epc' = [epc EXCEPT ![r] = "return"]
            /\ inputs' = [inputs EXCEPT ![r] = executor_inputs(@)]
            /\ outputs' = [outputs EXCEPT ![r] = executor(executor_inputs(inputs[r]))]
            /\ elog' = [elog EXCEPT ![r].executed = Append(@, executor_inputs(inputs[r]))]
    /\ UNCHANGED <<environ, world_size, local_rank, loaded, channel>>
    /\ UNCHANGED packetVars

\* The end of do_inference: the leader returns the two views of the logits,
\* any other rank falls off the end and returns None.
DoInferenceReturn(r) ==
    /\ epc[r] = "return"
    /\ LET ret == IF is_leader(r)
                  THEN [input_logits |-> input_logits(outputs[r]),
                        last_logits |-> next_tokens_logits(outputs[r])]
                  ELSE None
       IN  elog' = [elog EXCEPT ![r].returned = Append(@, ret)]
    /\ epc' = [epc EXCEPT ![r] = "idle"]
    /\ UNCHANGED <<environ, world_size, local_rank, loaded, channel, inputs, outputs>>
    /\ UNCHANGED packetVars

\* The environments a launcher gives a rank group of n processes: a group of
\* one may run with the variables unset, a larger group has them set.
GroupSizes == {1, 2, 3}

Str(n) == CASE n = 0 -> "0" [] n = 1 -> "1" [] n = 2 -> "2" [] n = 3 -> "3"

LaunchEnviron(n, r) == [WORLD_SIZE |-> Str(n), LOCAL_RANK |-> Str(r)]

Environs ==
    UNION {IF n = 1
           THEN {[r \in {0} |-> [name \in set |-> LaunchEnviron(n, r)[name]]] :
                    set \in SUBSET {"WORLD_SIZE", "LOCAL_RANK"}}
           ELSE {[r \in 0..(n - 1) |-> LaunchEnviron(n, r)]}
           : n \in GroupSizes}

\* The generated tokens a Packet may hold when the engine is given it.
EngineGenerateIds == {<<>>, <<41>>}

\* The pad_token_id the rank group's engines are constructed with.
EnginePadTokenId == CHOOSE t \in PadTokenIds : TRUE

\* A rank group right after construction, with the Packets its scheduler holds.
EngineInit ==
    /\ request \in [BatchPacketIds -> Prompts]
    /\ generate_ids \in [BatchPacketIds -> EngineGenerateIds]
    /\ state = [p \in BatchPacketIds |->
                   IF generate_ids[p] = <<>> THEN PENDING ELSE RUNNING]
    /\ result_queue = [p \in BatchPacketIds |->
                   [i \in 1..Len(generate_ids[p]) |-> GenerateResult(generate_ids[p][i])]]
    /\ exception = [p \in BatchPacketIds |-> None]
    /\ pad_token_id = EnginePadTokenId
    /\ model_name \in ModelNames
    /\ pc = [p \in BatchPacketIds |-> "idle"]
    /\ received = [p \in BatchPacketIds |-> <<>>]
    /\ produced = result_queue
    /\ last = Call("__init__", 0, None, None)
    /\ \E envs \in Environs : NpuEngineInit(envs)

EngineNext ==
    \E r \in Ranks :
        \/ /\ elog[r].started < MaxSteps
           /\ \E packets \in Batches : DoInferenceBegin(r, packets)
        \/ broadcast_inputs(r)
        \/ DoInferenceForward(r)
        \/ DoInferenceReturn(r)

EngineSpec == EngineInit /\ [][EngineNext]_vars

\* ------------------------------------------------------------------ claims

\* Everything get_result has returned, followed by what is still queued.
Channel(p) == received[p] \o result_queue[p]

\* Number of GenerateResults in a sequence of channel items.
Results(s) == Len(s) - Markers(s)

\* The GenerateResults of a sequence of channel items, in order.
ResultsOf(s) == SelectSeq(s, LAMBDA x : x # None)

\* The greatest element of a non-empty set of integers.
MaxOf(S) == CHOOSE m \in S : \A x \in S : x <= m

\* max_length of a batch as the specification defines it.
MaxLength(batch) ==
    MaxOf({Len(request[batch[k]]) + Len(generate_ids[batch[k]]) : k \in 1..Len(batch)})

\* The most recent call is prepare_inputs on a non-empty batch.
Prepared == last.op = "prepare_inputs" /\ last.arg # <<>>

\* C1: once finish() has been called on a Packet at least once, its result
\* channel has been given the terminal marker exactly once in total, however
\* many times finish() was called.
C1_TerminalMarkerExactlyOnce ==
    \A p \in Packets :
        Markers(produced[p]) >= 1 => Markers(Channel(p)) = 1

\* C2: after finish() and after the consumer has read the terminal marker, a
\* further get_result() call does not block: the consumer is never found
\* suspended in get_result on an empty channel.
C2_GetResultAfterTerminationDoesNotBlock ==
    \A p \in Packets :
        (state[p] = FINISH /\ Markers(received[p]) >= 1 /\ pc[p] = "get_result")
            => ~QueueEmpty(result_queue[p])

\* C3: whichever terminal transition a Packet takes, finish() or error(), a
\* consumer that keeps awaiting get_result() eventually observes the terminal
\* marker or an explicit error.
C3_ConsumerEventuallyObservesTermination ==
    \A p \in PacketIds :
        (last.op \in {"finish", "error"} /\ last.pkt = p)
            ~> (Markers(received[p]) >= 1 \/ exception[p] # None \/ state[p] = ERROR)

\* C4: when error() returns, the Packet's state is ERROR.
C4_ErrorSetsErrorState ==
    last.op = "error" => state[last.pkt] = ERROR

\* C5: len(generate_ids) never decreases; add_result appends exactly its
\* result's token id at the end; every other operation (finish, error,
\* get_result, is_finished, return_q_empty, prepare_inputs) leaves generate_ids
\* as it was.
C5_GenerateIdsAppendOnly ==
    [][\A p \in PacketIds :
          /\ Len(generate_ids'[p]) >= Len(generate_ids[p])
          /\ (last'.op = "add_result" /\ last'.pkt = p)
                => generate_ids'[p] = Append(generate_ids[p], last'.arg.token_id)
          /\ ~(last'.op = "add_result" /\ last'.pkt = p)
                => generate_ids'[p] = generate_ids[p]]_vars

\* C5 witness: add_result has just appended a second, different token to a
\* Packet that other operations (finish, get_result) have also acted on.
C5_Witness ==
    /\ last.op = "add_result"
    /\ Len(generate_ids[last.pkt]) >= 2
    /\ generate_ids[last.pkt][1] # generate_ids[last.pkt][2]
    /\ generate_ids[last.pkt][Len(generate_ids[last.pkt])] = last.arg.token_id
    /\ Len(received[last.pkt]) >= 1

\* C6: once a Packet's state is FINISH, generate_ids no longer grows and no
\* GenerateResult is put on its result channel.
C6_NothingProducedAfterFinish ==
    [][\A p \in PacketIds :
          state[p] = FINISH =>
              /\ generate_ids'[p] = generate_ids[p]
              /\ Results(Channel(p)') = Results(Channel(p))]_vars

\* C7: per Packet, what get_result returns is what the producer handed over, in
\* the order of the calls (each add_result's result, the marker where finish()
\* was called), nothing lost and nothing duplicated: the values read so far
\* followed by the values still queued are exactly the values produced, and the
\* k-th result read carries the k-th token of generate_ids.
C7_ResultsDeliveredInOrder ==
    \A p \in Packets :
        /\ Channel(p) = produced[p]
        /\ \A i \in 1..Len(received[p]) : received[p][i] = produced[p][i]
        /\ \A k \in 1..Len(ResultsOf(received[p])) :
              ResultsOf(received[p])[k].token_id = generate_ids[p][k]

\* C7 witness: the consumer has read two different results and then the
\* terminal marker, and the channel is drained.
C7_Witness ==
    \E p \in Packets :
        /\ Len(received[p]) = 3
        /\ received[p][1] = GenerateResult(41)
        /\ received[p][2] = GenerateResult(42)
        /\ received[p][3] = None
        /\ QueueEmpty(result_queue[p])

\* C8: for a non-empty batch prepare_inputs returns one row per Packet in
\* input_ids and in position_ids, and every row has length max_length, the
\* greatest len(request.input_ids) + len(generate_ids) over the batch.
C8_RowsHaveMaxLength ==
    Prepared =>
        /\ Len(last.ret.input_ids) = Len(last.arg)
        /\ Len(last.ret.position_ids) = Len(last.arg)
        /\ \A k \in 1..Len(last.arg) :
              /\ Len(last.ret.input_ids[k]) = MaxLength(last.arg)
              /\ Len(last.ret.position_ids[k]) = MaxLength(last.arg)

\* C8 witness: a batch of two Packets of different lengths, one in prefill and
\* one in decode, has been prepared.
C8_Witness ==
    /\ Prepared
    /\ Len(last.arg) = 2
    /\ cur_id_len(last.arg[1]) < cur_id_len(last.arg[2])
    /\ generate_ids[last.arg[1]] # <<>>
    /\ generate_ids[last.arg[2]] = <<>>

\* C9: row by row, a Packet with no generated token gives its prompt
\* right-padded with pad_token_id to max_length and positions 0..max_length-1;
\* a Packet with generated tokens gives its newest token followed by
\* max_length-1 pads and positions max_length-1, 0, ..., 0.
C9_RowsFollowPaddingPolicy ==
    Prepared =>
        \A k \in 1..Len(last.arg) :
            LET p == last.arg[k]
                m == MaxLength(last.arg)
                ids == last.ret.input_ids[k]
                pos == last.ret.position_ids[k]
            IN  /\ DOMAIN ids = 1..m
                /\ DOMAIN pos = 1..m
                /\ generate_ids[p] = <<>> =>
                      \A i \in 1..m :
                          /\ ids[i] = IF i <= Len(request[p])
                                      THEN request[p][i] ELSE pad_token_id
                          /\ pos[i] = i - 1
                /\ generate_ids[p] # <<>> =>
                      \A i \in 1..m :
                          /\ ids[i] = IF i = 1
                                      THEN generate_ids[p][Len(generate_ids[p])]
                                      ELSE pad_token_id
                          /\ pos[i] = IF i = 1 THEN m - 1 ELSE 0

\* C9 witness: the specification's examples in one batch with pad_token_id 0:
\* prompt [5,7,9] with generate_ids [42] (max length 4) next to the lone prompt
\* [5].
C9_Witness ==
    /\ Prepared
    /\ pad_token_id = 0
    /\ last.arg = <<1, 2>>
    /\ request[1] = <<5, 7, 9>> /\ generate_ids[1] = <<42>>
    /\ request[2] = <<5>> /\ generate_ids[2] = <<>>
    /\ last.ret.input_ids = << <<42, 0, 0, 0>>, <<5, 0, 0, 0>> >>
    /\ last.ret.position_ids = << <<3, 0, 0, 0>>, <<0, 1, 2, 3>> >>

\* C10 as claimed: in every decode row the first position id is that Packet's
\* own len(request.input_ids) + len(generate_ids) - 1.
C10_DecodePositionIsOwnPosition ==
    Prepared =>
        \A k \in 1..Len(last.arg) :
            generate_ids[last.arg[k]] # <<>> =>
                last.ret.position_ids[k][1] =
                    Len(request[last.arg[k]]) + Len(generate_ids[last.arg[k]]) - 1

\* C10 as amended: in every decode row the first position id is max_length - 1,
\* the last index of the longest Packet of the batch; it is the Packet's own
\* position exactly when the Packet is as long as the longest one.
C10_DecodePositionIsBatchMax ==
    Prepared =>
        \A k \in 1..Len(last.arg) :
            generate_ids[last.arg[k]] # <<>> =>
                /\ last.ret.position_ids[k][1] = MaxLength(last.arg) - 1
                /\ (last.ret.position_ids[k][1] =
                        Len(request[last.arg[k]]) + Len(generate_ids[last.arg[k]]) - 1)
                   <=> (Len(request[last.arg[k]]) + Len(generate_ids[last.arg[k]])
                            = MaxLength(last.arg))

\* C10 witness: a decode row has been built for a Packet shorter than the
\* longest Packet of its batch.
C10_Witness ==
    /\ Prepared
    /\ \E k \in 1..Len(last.arg) :
          /\ generate_ids[last.arg[k]] # <<>>
          /\ cur_id_len(last.arg[k]) < MaxLength(last.arg)
          /\ last.ret.position_ids[k][1] = MaxLength(last.arg) - 1

\* The policy the k-th row of the prepared batch was built with.
RowPolicy(k) == IF generate_ids[last.arg[k]] = <<>> THEN "prefill" ELSE "decode"

\* C11 as claimed: the generate_type tag of a non-empty batch is the policy of
\* every one of its rows; no batch carries rows of both kinds under one tag.
C11_TagDescribesEveryRow ==
    Prepared => \A k \in 1..Len(last.arg) : last.ret.generate_type = RowPolicy(k)

\* C11 as amended: the generate_type tag is the policy of the last row of the
\* batch; it is the policy of every row exactly when all rows of the batch were
\* built with the same policy.
C11_TagIsLastRowsPolicy ==
    Prepared =>
        /\ last.ret.generate_type \in {"prefill", "decode"}
        /\ last.ret.generate_type = RowPolicy(Len(last.arg))
        /\ (\A k \in 1..Len(last.arg) : last.ret.generate_type = RowPolicy(k))
           <=> (\A j, k \in 1..Len(last.arg) : RowPolicy(j) = RowPolicy(k))

\* C11 witness: a batch whose first row is a decode row and whose last row is a
\* prefill row has been prepared and is tagged "prefill".
C11_Witness ==
    /\ Prepared
    /\ Len(last.arg) = 2
    /\ RowPolicy(1) = "decode"
    /\ RowPolicy(2) = "prefill"
    /\ last.ret.generate_type = "prefill"

\* C12: prepare_inputs on an empty list of Packets fails with EmptyBatchError:
\* it returns no model inputs and raises no other error.
C12_EmptyBatchRaisesEmptyBatchError ==
    (last.op = "prepare_inputs" /\ last.arg = <<>>)
        => last.ret = [raised |-> "EmptyBatchError"]

\* The edges of the Packet state machine PENDING -> RUNNING -> {FINISH, ERROR}.
StateEdges == {<<PENDING, RUNNING>>, <<RUNNING, FINISH>>, <<RUNNING, ERROR>>}

\* C17: a Packet is created PENDING with empty generate_ids, and every change
\* of its state follows an edge of PENDING -> RUNNING -> {FINISH, ERROR}: FINISH
\* and ERROR are left by no operation and finish() never takes a Packet from
\* PENDING straight to FINISH.
C17_StateFollowsStateMachine ==
    /\ \A p \in PacketIds : state[p] = PENDING /\ generate_ids[p] = <<>>
    /\ [][\A p \in PacketIds :
             state'[p] # state[p] => <<state[p], state'[p]>> \in StateEdges]_vars

\* C19: batch preparation is read-only on its Packets: prepare_inputs leaves
\* request.input_ids, generate_ids, state and the result channel of every Packet
\* as they were; the request is changed by no operation at all, and generate_ids
\* is changed by add_result only.
C19_PrepareInputsReadOnly ==
    [][/\ last'.op = "prepare_inputs" =>
             /\ request' = request
             /\ generate_ids' = generate_ids
             /\ state' = state
             /\ result_queue' = result_queue
       /\ request' = request
       /\ generate_ids' # generate_ids => last'.op = "add_result"]_vars

\* C19 witness: prepare_inputs has just built a decode row for a Packet that
\* holds generated tokens and queued results.
C19_Witness ==
    /\ Prepared
    /\ \E k \in 1..Len(last.arg) :
          /\ Len(generate_ids[last.arg[k]]) >= 2
          /\ result_queue[last.arg[k]] # <<>>
          /\ last.ret.input_ids[k][1] =
                 generate_ids[last.arg[k]][Len(generate_ids[last.arg[k]])]

\* The token ids of the GenerateResults in a sequence of channel items.
TokenIdsOf(s) == [k \in 1..Len(ResultsOf(s)) |-> ResultsOf(s)[k].token_id]

\* C20: in every reachable state of a Packet the token ids of the
\* GenerateResults ever put on its result channel (those consumed, then those
\* still queued, terminal markers ignored) are, in order, exactly generate_ids.
C20_ChannelAgreesWithGenerateIds ==
    \A p \in Packets : TokenIdsOf(Channel(p)) = generate_ids[p]

\* C20 witness: two different tokens were produced, the first result has been
\* consumed, the second is still queued, and a terminal marker sits on the
\* channel as well.
C20_Witness ==
    \E p \in Packets :
        /\ generate_ids[p] = <<41, 42>>
        /\ Results(received[p]) = 1
        /\ Results(result_queue[p]) = 1
        /\ Markers(Channel(p)) >= 1

\* The trace of the group's leader, the rank whose engine has local_rank 0.
LeaderLog == elog[CHOOSE r \in Ranks : local_rank[r] = 0]

\* C13, as stated: with a rank count of 1, broadcast_inputs(x) returns x itself,
\* same value and same shape, and the messenger's broadcast and receive are
\* never invoked.
C13_BroadcastInputsReturnsItsArgument ==
    \A r \in Ranks :
        world_size[r] = 1 =>
            /\ elog[r].msgr = 0
            /\ \A k \in 1..Len(elog[r].got) : elog[r].got[k] = elog[r].prepared[k]

\* C13, amended: with a rank count of 1, broadcast_inputs(x) returns the tuple
\* of its arguments, (x,), whose only element is x unchanged, and the
\* messenger's broadcast and receive are never invoked.
C13_BroadcastInputsReturnsArgsTuple ==
    \A r \in Ranks :
        world_size[r] = 1 =>
            /\ elog[r].msgr = 0
            /\ \A k \in 1..Len(elog[r].got) :
                   elog[r].got[k] = PyTuple(<<elog[r].prepared[k]>>)

\* A group of one has called broadcast_inputs in two steps with different inputs.
C13_Witness ==
    \E r \in Ranks :
        /\ world_size[r] = 1
        /\ Len(elog[r].got) >= 2
        /\ elog[r].got[1] # elog[r].got[2]

\* C14: with a rank count above 1, what a rank obtains from its k-th
\* broadcast_inputs call is the payload the leader passed to its k-th broadcast,
\* never that of another step, for every follower however far behind it runs;
\* the leader's payload is the tuple of its prepared inputs and the leader gets
\* it back unchanged.
C14_KthReceiveIsKthBroadcast ==
    \A r \in Ranks :
        world_size[r] > 1 =>
            /\ Len(elog[r].got) <= Len(LeaderLog.sent)
            /\ \A k \in 1..Len(elog[r].got) : elog[r].got[k] = LeaderLog.sent[k]
            /\ local_rank[r] = 0 =>
                   \A k \in 1..Len(elog[r].sent) :
                       elog[r].sent[k] = PyTuple(<<elog[r].prepared[k]>>)

\* Two followers at different speeds: the leader has broadcast two different
\* payloads, one follower has taken both and the other only the first.
C14_Witness ==
    \E f, g \in Ranks :
        /\ local_rank[f] # 0 /\ local_rank[g] # 0
        /\ Len(LeaderLog.sent) >= 2
        /\ LeaderLog.sent[1] # LeaderLog.sent[2]
        /\ Len(elog[f].got) = 1
        /\ Len(elog[g].got) = 2
        /\ channel[f] # <<>>

\* C15: in every do_inference step only the leader calls prepare_inputs; every
\* rank calls broadcast_inputs once, then the executor once, with the inputs the
\* leader prepared for that step; the leader returns the two views of the
\* logits, which are all positions but the last and the last one, and every
\* follower returns None.
C15_StepDiscipline ==
    \A r \in Ranks :
        LET l == elog[r]
            before == l.started - 1
        IN  /\ local_rank[r] # 0 => l.prepared = <<>>
            /\ local_rank[r] = 0 => Len(l.prepared) <= l.started
            /\ epc[r] = "idle" =>
                   /\ Len(l.got) = l.started
                   /\ Len(l.executed) = l.started
                   /\ Len(l.returned) = l.started
            /\ epc[r] = "broadcast_inputs" =>
                   /\ Len(l.got) = before
                   /\ Len(l.executed) = before
                   /\ Len(l.returned) = before
            /\ epc[r] = "forward" =>
                   /\ Len(l.got) = l.started
                   /\ Len(l.executed) = before
                   /\ Len(l.returned) = before
            /\ epc[r] = "return" =>
                   /\ Len(l.got) = l.started
                   /\ Len(l.executed) = l.started
                   /\ Len(l.returned) = before
            /\ \A k \in 1..Len(l.executed) :
                   l.executed[k] = executor_inputs(LeaderLog.prepared[k])
            /\ \A k \in 1..Len(l.returned) :
                   IF local_rank[r] = 0
                   THEN LET logits == executor(l.executed[k]).logits
                        IN  /\ DOMAIN l.returned[k] = {"input_logits", "last_logits"}
                            /\ \A b \in DOMAIN logits :
                                   l.returned[k].input_logits[b]
                                       \o <<l.returned[k].last_logits[b]>> = logits[b]
                   ELSE l.returned[k] = None

\* A leader and a follower have both completed two steps.
C15_Witness ==
    \E r \in Ranks :
        /\ local_rank[r] # 0
        /\ epc[r] = "idle"
        /\ Len(elog[r].returned) >= 2
        /\ Len(LeaderLog.returned) >= 2

\* C16: no rank returns from do_inference in step n before the executor call of
\* step n has completed on every rank of the group.
C16_NoReturnBeforeEveryRankExecuted ==
    \A r, q \in Ranks : Len(elog[r].returned) <= Len(elog[q].executed)

\* C18: the world size and rank that load_model uses are those setup()
\* established for the engine, whatever the environment, WORLD_SIZE and
\* LOCAL_RANK unset included.
C18_LoadModelUsesSetupRankIdentity ==
    \A r \in Ranks :
        /\ loaded[r].world_size = world_size[r]
        /\ loaded[r].local_rank = local_rank[r]

====
